---- MODULE Spec2Model ----
(***************************************************************************)
(* X3DH / PQXDH key agreement (src/src/x3dh/X3DH.ts) over the primitives   *)
(* of CryptoUtils (src/src/utils/crypto.ts).                               *)
(*                                                                         *)
(* Representation.  A JavaScript string is a sequence of character codes,  *)
(* a Buffer / Uint8Array is a sequence of bytes 0..255.  Base64 text is    *)
(* encoded and decoded bit for bit as Buffer does it.  Keys are KeyLen     *)
(* bytes long instead of 32, and the Diffie-Hellman group is the           *)
(* multiplicative group modulo FieldPrime with the same scalar clamping    *)
(* and top-bit masking as X25519.  sha512 is the ideal collision-free      *)
(* hash: a digest is represented by its preimage.  The AES cipher is the   *)
(* ideal sealed box: a ciphertext opens only under the key that sealed it. *)
(***************************************************************************)
EXTENDS Integers, Sequences, FiniteSets, TLC

(***************************************************************************)
(* Bounds of the model.                                                    *)
(***************************************************************************)
KeyLen == 2
MaxSeed == 2
MaxBundles == 2
MaxSends == 2
MaxCalls == 1
MaxEdits == 1
MaxFlight == 2
MaxLog == 4
MaxParts == 2

(***************************************************************************)
(* Bytes, strings, base64.                                                 *)
(***************************************************************************)
Pow2(n) == 2 ^ n

Min(a, b) == IF a < b THEN a ELSE b

Tail2(s) == SubSeq(s, 3, Len(s))

Tail3(s) == SubSeq(s, 4, Len(s))

Tail4(s) == SubSeq(s, 5, Len(s))

\* The JavaScript < on strings: lexicographic on code units, a proper
\* prefix is smaller.
RECURSIVE StrLess(_, _)
StrLess(a, b) ==
  IF Len(b) = 0 THEN FALSE
  ELSE IF Len(a) = 0 THEN TRUE
  ELSE IF Head(a) # Head(b) THEN Head(a) < Head(b)
  ELSE StrLess(Tail(a), Tail(b))

\* The base64 alphabet A-Z a-z 0-9 + / as character codes.
B64Char(v) ==
  IF v < 26 THEN 65 + v
  ELSE IF v < 52 THEN 71 + v
  ELSE IF v < 62 THEN v - 4
  ELSE IF v = 62 THEN 43 ELSE 47

B64Value(c) ==
  IF c >= 65 /\ c <= 90 THEN c - 65
  ELSE IF c >= 97 /\ c <= 122 THEN c - 71
  ELSE IF c >= 48 /\ c <= 57 THEN c + 4
  ELSE IF c = 43 THEN 62
  ELSE IF c = 47 THEN 63 ELSE -1

\* The padding character "=".
PadChar == 61

\* buf.toString("base64")
RECURSIVE toBase64(_)
toBase64(b) ==
  IF Len(b) = 0 THEN <<>>
  ELSE IF Len(b) = 1 THEN
    <<B64Char(b[1] \div 4), B64Char((b[1] % 4) * 16), PadChar, PadChar>>
  ELSE IF Len(b) = 2 THEN
    <<B64Char(b[1] \div 4), B64Char((b[1] % 4) * 16 + b[2] \div 16),
      B64Char((b[2] % 16) * 4), PadChar>>
  ELSE
    <<B64Char(b[1] \div 4), B64Char((b[1] % 4) * 16 + b[2] \div 16),
      B64Char((b[2] % 16) * 4 + b[3] \div 64), B64Char(b[3] % 64)>>
    \o toBase64(Tail3(b))

\* The base64 digits of a string up to its first padding character.
RECURSIVE B64Digits(_)
B64Digits(s) ==
  IF Len(s) = 0 \/ Head(s) = PadChar THEN <<>>
  ELSE IF B64Value(Head(s)) < 0 THEN B64Digits(Tail(s))
  ELSE <<B64Value(Head(s))>> \o B64Digits(Tail(s))

\* Whole bytes of a run of 6-bit digits; left-over bits are dropped.
RECURSIVE DigitsToBytes(_)
DigitsToBytes(d) ==
  IF Len(d) < 2 THEN <<>>
  ELSE IF Len(d) = 2 THEN <<d[1] * 4 + d[2] \div 16>>
  ELSE IF Len(d) = 3 THEN
    <<d[1] * 4 + d[2] \div 16, (d[2] % 16) * 16 + d[3] \div 4>>
  ELSE
    <<d[1] * 4 + d[2] \div 16, (d[2] % 16) * 16 + d[3] \div 4,
      (d[3] % 4) * 64 + d[4]>>
    \o DigitsToBytes(Tail4(d))

\* Buffer.from(s, "base64")
fromBase64(s) == DigitsToBytes(B64Digits(s))

\* Buffer.concat
RECURSIVE BufferConcat(_)
BufferConcat(list) ==
  IF Len(list) = 0 THEN <<>> ELSE Head(list) \o BufferConcat(Tail(list))

\* "X3DH_Demo_v1"
APP_INFO == <<88, 51, 68, 72, 95, 68, 101, 109, 111, 95, 118, 49>>

\* Buffer.from(APP_INFO): the string's UTF-8 bytes (all ASCII).
Utf8Bytes(s) == s

\* The value a failed step leaves: no string or buffer holds -1.
Thrown == <<-1>>

\* JavaScript's undefined where a string or an object is expected.
Undefined == <<-2>>

(***************************************************************************)
(* The libraries CryptoUtils calls.                                        *)
(***************************************************************************)
\* randomBytes(n) of @noble/hashes/utils: a counter-mode generator.  The
\* generator's state is the counter c; the byte at counter c is the high
\* byte of a 16-bit congruential mix of c.
RandomByte(c) == ((c * 25173 + 13849) % 65536) \div 256

RECURSIVE randomBytes(_, _)
randomBytes(c, n) ==
  IF n = 0 THEN <<>> ELSE <<RandomByte(c + 1)>> \o randomBytes(c + 1, n - 1)

\* A generator that does not advance: every call returns the same bytes.
RngAfter_stuck(c, n) == c

\* The generator's state after n bytes.
RngAfter(c, n) == c + n

\* sha512 of @noble/hashes: the ideal collision-free hash, a digest is
\* represented by its preimage.
sha512(m) == m

\* The X25519 field prime 2^255 - 19, scaled to 2^15 - 19.
FieldPrime == 32749

\* The X25519 base point u = 9.
BasePoint == 9

RECURSIVE bytesToNumberLE(_)
bytesToNumberLE(b) ==
  IF Len(b) = 0 THEN 0 ELSE Head(b) + 256 * bytesToNumberLE(Tail(b))

numberToBytesLE(n, len) == [i \in 1..len |-> (n \div Pow2(8 * (i - 1))) % 256]

\* adjustScalarBytes: clear the low three bits and the top bit, set the
\* second highest bit.
adjustScalarBytes(n) ==
  LET top == Pow2(8 * KeyLen - 2)
      low == n % top
  IN  (low - (low % 8)) + top

\* decodeUCoordinate: the most significant bit is masked, the value is
\* reduced modulo the field prime.
decodeUCoordinate(b) == (bytesToNumberLE(b) % Pow2(8 * KeyLen - 1)) % FieldPrime

\* The scalar multiplication of the group, by square and multiply.
RECURSIVE scalarMult(_, _)
scalarMult(k, u) ==
  IF k = 0 THEN 1
  ELSE LET h == scalarMult(k \div 2, u)
           sq == (h * h) % FieldPrime
       IN  IF k % 2 = 1 THEN (sq * u) % FieldPrime ELSE sq

\* x25519.getPublicKey
x25519_getPublicKey(priv) ==
  IF Len(priv) # KeyLen THEN Thrown
  ELSE numberToBytesLE(scalarMult(adjustScalarBytes(bytesToNumberLE(priv)),
                                  BasePoint), KeyLen)

\* x25519.getSharedSecret: rejects keys of the wrong length and the
\* all-zero result.
x25519_getSharedSecret(priv, pub) ==
  IF Len(priv) # KeyLen \/ Len(pub) # KeyLen THEN Thrown
  ELSE LET r == scalarMult(adjustScalarBytes(bytesToNumberLE(priv)),
                           decodeUCoordinate(pub))
       IN  IF r = 0 THEN Thrown ELSE numberToBytesLE(r, KeyLen)

\* CryptoJS AES with a passphrase: the ideal sealed box.  The box holds the
\* passphrase it was sealed under and the message.
AES_encrypt(message, passphrase) == <<Len(passphrase)>> \o passphrase \o message

AES_opens(box, passphrase) ==
  /\ Len(box) >= 1
  /\ box[1] = Len(passphrase)
  /\ Len(box) >= 1 + Len(passphrase)
  /\ SubSeq(box, 2, 1 + Len(passphrase)) = passphrase

\* AES.decrypt(...).toString(enc.Utf8): the message under the sealing
\* passphrase; under any other, bytes that are no message: the empty string
\* or the error "Malformed UTF-8 data".
AES_decrypt(box, passphrase) ==
  IF AES_opens(box, passphrase)
  THEN {SubSeq(box, 2 + Len(passphrase), Len(box))}
  ELSE {<<>>, Thrown}

\* MlKem1024: the ideal KEM.  The public key is a one-way image of the
\* private key; a ciphertext is bound to the public key it was made for and
\* decapsulates to the encapsulated secret under the matching private key,
\* and to the implicit-rejection secret in every other case.
MlKem_publicKey(sk) == [i \in 1..Len(sk) |-> (sk[i] * 5 + 7) % 256]

MlKem_generateKeyPair(d) == <<MlKem_publicKey(d), d>>

MlKem_encap(pk, m) ==
  IF Len(pk) # KeyLen THEN Thrown
  ELSE <<pk \o m, <<0>> \o m \o pk>>

MlKem_decap(ct, sk) ==
  IF Len(ct) # 2 * KeyLen \/ Len(sk) # KeyLen THEN Thrown
  ELSE IF SubSeq(ct, 1, KeyLen) = MlKem_publicKey(sk)
       THEN <<0>> \o SubSeq(ct, KeyLen + 1, 2 * KeyLen) \o MlKem_publicKey(sk)
       ELSE <<1>> \o sk \o ct

(***************************************************************************)
(* CryptoUtils (src/src/utils/crypto.ts).                                  *)
(***************************************************************************)
SafetyNumberLen == 12

DerivedKeyLen == 32

\* generateSafetyNumber without putting the two keys in order.
generateSafetyNumber_unordered(key1, key2) ==
  LET combinedKeys == BufferConcat(<<fromBase64(key1), fromBase64(key2)>>)
      hash == sha512(combinedKeys)
      text == toBase64(hash)
  IN  SubSeq(text, 1, Min(SafetyNumberLen, Len(text)))

\* generateSafetyNumber hashing the first key of the two only.
generateSafetyNumber_firstOnly(key1, key2) ==
  LET firstKey == IF StrLess(key1, key2) THEN key1 ELSE key2
      hash == sha512(fromBase64(firstKey))
      text == toBase64(hash)
  IN  SubSeq(text, 1, Min(SafetyNumberLen, Len(text)))

generateSafetyNumber(key1, key2) ==
  LET firstKey == IF StrLess(key1, key2) THEN key1 ELSE key2
      secondKey == IF StrLess(key1, key2) THEN key2 ELSE key1
      combinedKeys == BufferConcat(<<fromBase64(firstKey), fromBase64(secondKey)>>)
      hash == sha512(combinedKeys)
      text == toBase64(hash)
  IN  SubSeq(text, 1, Min(SafetyNumberLen, Len(text)))

\* rnd is the value randomBytes(32) returned.
generateKeyPair(rnd) ==
  [publicKey |-> toBase64(x25519_getPublicKey(rnd)),
   privateKey |-> toBase64(rnd)]

generatePreKey(rnd) == generateKeyPair(rnd)

sign(privateKey, data) ==
  LET privateKeyBytes == fromBase64(privateKey)
      dataBytes == fromBase64(data)
      signatureInput == BufferConcat(<<privateKeyBytes, dataBytes>>)
  IN  toBase64(sha512(signatureInput))

\* generateSignedPreKey signing with the pre-key's own private key.
generateSignedPreKey_selfSigned(identityPrivateKey, rnd) ==
  LET keyPair == generateKeyPair(rnd)
  IN  [publicKey |-> keyPair.publicKey,
       privateKey |-> keyPair.privateKey,
       signature |-> sign(keyPair.privateKey, keyPair.publicKey)]

generateSignedPreKey(identityPrivateKey, rnd) ==
  LET keyPair == generateKeyPair(rnd)
  IN  [publicKey |-> keyPair.publicKey,
       privateKey |-> keyPair.privateKey,
       signature |-> sign(identityPrivateKey, keyPair.publicKey)]

deriveKey(keyMaterial) ==
  LET keyBytes == fromBase64(keyMaterial)
      info == Utf8Bytes(APP_INFO)
      derivationInput == BufferConcat(<<keyBytes, info>>)
      derivedKey == sha512(derivationInput)
  IN  toBase64(SubSeq(derivedKey, 1, Min(DerivedKeyLen, Len(derivedKey))))

encrypt(message, key) == AES_encrypt(message, deriveKey(key))

\* The set of outcomes of decrypt.
decrypt(encryptedMessage, key) == AES_decrypt(encryptedMessage, deriveKey(key))

deriveSharedSecret(privateKey, publicKey) ==
  IF privateKey = Undefined \/ publicKey = Undefined THEN Thrown
  ELSE LET sharedSecret == x25519_getSharedSecret(fromBase64(privateKey),
                                                  fromBase64(publicKey))
       IN  IF sharedSecret = Thrown THEN Thrown ELSE toBase64(sharedSecret)

\* combineSharedSecrets writing the length of each secret before its bytes.
combineSharedSecrets_framed(secrets) ==
  LET combinedSecrets == [i \in 1..Len(secrets) |-> <<Len(fromBase64(secrets[i]))>> \o fromBase64(secrets[i])]
      concatenated == BufferConcat(combinedSecrets)
      info == Utf8Bytes(APP_INFO)
      finalInput == BufferConcat(<<concatenated, info>>)
      finalHash == sha512(finalInput)
  IN  toBase64(finalHash)

\* combineSharedSecrets adding the secrets up byte by byte instead of
\* concatenating them.
combineSharedSecrets_summed(secrets) ==
  LET combinedSecrets == [i \in 1..Len(secrets) |-> fromBase64(secrets[i])]
      width == IF secrets = <<>> THEN 0 ELSE Len(combinedSecrets[1])
      ByteAt(i, k) == IF k <= Len(combinedSecrets[i])
                      THEN combinedSecrets[i][k] ELSE 0
      Sum[i \in 0..Len(secrets)] ==
        IF i = 0 THEN [k \in 1..width |-> 0]
        ELSE [k \in 1..width |-> (Sum[i - 1][k] + ByteAt(i, k)) % 256]
      info == Utf8Bytes(APP_INFO)
      finalInput == BufferConcat(<<Sum[Len(secrets)], info>>)
      finalHash == sha512(finalInput)
  IN  toBase64(finalHash)

combineSharedSecrets(secrets) ==
  LET combinedSecrets == [i \in 1..Len(secrets) |-> fromBase64(secrets[i])]
      concatenated == BufferConcat(combinedSecrets)
      info == Utf8Bytes(APP_INFO)
      finalInput == BufferConcat(<<concatenated, info>>)
      finalHash == sha512(finalInput)
  IN  toBase64(finalHash)

(***************************************************************************)
(* The state.                                                              *)
(***************************************************************************)
VARIABLES
  variant,   \* the class of both parties: "X3DH" or "PQXDH"
  session,   \* session[p]: the private field session of party p
  heap,      \* the Uint8Array objects, by reference
  rng,       \* the state of the random generator
  bundles,   \* the Bundle objects getPublicBundle has returned
  wire,      \* the EncryptedMessage objects encryptMessage has returned
  calls,     \* the PQXDH calls suspended at their await
  last,      \* the call that completed last
  sent,      \* the number of encryptMessage calls made
  edits,     \* the number of changes holders made to bundles and messages
  inputs,    \* the arguments a function of CryptoUtils is tried on
  outputs    \* what it returned for them

vars == <<variant, session, heap, rng, bundles, wire, calls, last, sent, edits,
          inputs, outputs>>

Parties == {"alice", "bob"}

Variants == {"X3DH", "PQXDH"}

\* The messages of the conversation, in the order they are sent: "hi",
\* "bye", "ok".
messages == <<(<<104, 105>>), (<<98, 121, 101>>), (<<111, 107>>)>>

\* The message the next encryptMessage call is given.
NextMessage == messages[(sent % Len(messages)) + 1]

\* Array(10)
NumPreKeys == 10

\* The k-th value randomBytes returns from generator state s on.
Draw(s, k) == randomBytes(RngAfter(s, k * KeyLen), KeyLen)

\* arr[i] of a JavaScript array of strings.
ArrayGet(arr, i) == IF i >= 0 /\ i < Len(arr) THEN arr[i + 1] ELSE Undefined

\* The index of the first failed step of a list of results, 0 if none.
FirstThrown(list) ==
  IF \E i \in 1..Len(list) : list[i] = Thrown
  THEN CHOOSE i \in 1..Len(list) :
         list[i] = Thrown /\ \A j \in 1..(i - 1) : list[j] # Thrown
  ELSE 0

(***************************************************************************)
(* class X3DH                                                              *)
(***************************************************************************)
X3DH_initializeSession(s) ==
  LET identityKey == generateKeyPair(Draw(s, 0))
      preKeys == [i \in 1..NumPreKeys |-> generatePreKey(Draw(s, i))]
      signedPreKey == generateSignedPreKey(identityKey.privateKey,
                                           Draw(s, NumPreKeys + 1))
  IN  [identityKey |-> identityKey,
       preKeys |-> preKeys,
       signedPreKey |-> signedPreKey]

\* getPublicBundle listing the pre-keys last to first.
X3DH_getPublicBundle_reversed(sess) ==
  [identityKey |-> sess.identityKey.publicKey,
   preKeys |-> [i \in 1..Len(sess.preKeys) |-> sess.preKeys[Len(sess.preKeys) + 1 - i].publicKey],
   signedPreKey |-> [publicKey |-> sess.signedPreKey.publicKey,
                     signature |-> sess.signedPreKey.signature]]

\* getPublicBundle publishing the private half of the signed pre-key.
X3DH_getPublicBundle_leaky(sess) ==
  [identityKey |-> sess.identityKey.publicKey,
   preKeys |-> [i \in 1..Len(sess.preKeys) |-> sess.preKeys[i].publicKey],
   signedPreKey |-> [publicKey |-> sess.signedPreKey.privateKey,
                     signature |-> sess.signedPreKey.signature]]

X3DH_getPublicBundle(sess) ==
  [identityKey |-> sess.identityKey.publicKey,
   preKeys |-> [i \in 1..Len(sess.preKeys) |-> sess.preKeys[i].publicKey],
   signedPreKey |-> [publicKey |-> sess.signedPreKey.publicKey,
                     signature |-> sess.signedPreKey.signature]]

\* The pre-key index encryptMessage takes a round-robin turn on.
FirstPreKeyIndex_rotating(recipientBundle) == Len(recipientBundle.preKeys) % 3

\* "Use the first available pre-key": the index encryptMessage selects.
FirstPreKeyIndex(recipientBundle) == 0

\* The operands <<privateKey, publicKey>> of dh1..dh4 of the initiator.
InitiatorOperands(sess, recipientBundle, ephemeralKey) ==
  LET usedPreKey == ArrayGet(recipientBundle.preKeys, FirstPreKeyIndex(recipientBundle))
  IN  <<(<<sess.identityKey.privateKey, recipientBundle.identityKey>>),
        (<<ephemeralKey.privateKey, recipientBundle.identityKey>>),
        (<<ephemeralKey.privateKey, usedPreKey>>),
        (<<ephemeralKey.privateKey, recipientBundle.signedPreKey.publicKey>>)>>

\* The operands of dh1..dh4 of the responder.  The private operand of dh3
\* is Undefined when this.session.preKeys[usedPreKeyIndex] is undefined.
ResponderOperands(sess, senderBundle, ephemeralKey, usedPreKeyIndex) ==
  LET inRange == usedPreKeyIndex >= 0 /\ usedPreKeyIndex < Len(sess.preKeys)
      usedPreKeyPrivate == IF inRange
                           THEN sess.preKeys[usedPreKeyIndex + 1].privateKey
                           ELSE Undefined
  IN  <<(<<sess.identityKey.privateKey, senderBundle.identityKey>>),
        (<<sess.identityKey.privateKey, ephemeralKey>>),
        (<<usedPreKeyPrivate, ephemeralKey>>),
        (<<sess.signedPreKey.privateKey, ephemeralKey>>)>>

\* The class of the exception the failed step throws.  An undefined
\* operand is a TypeError (reading .privateKey of undefined, or
\* Buffer.from(undefined, "base64")); x25519 throws an Error.
DhError(operands, failed) ==
  IF failed = 0 THEN "none"
  ELSE IF operands[failed][1] = Undefined \/ operands[failed][2] = Undefined
       THEN "TypeError"
       ELSE "Error"

\* The number of deriveSharedSecret calls made when step failed throws (all
\* of them when failed = 0).  usedPreKey.privateKey of an undefined
\* usedPreKey throws while the arguments of the call are evaluated: that
\* call is not made.
DhCallsMade(operands, failed) ==
  IF failed = 0 THEN Len(operands)
  ELSE IF operands[failed][1] = Undefined THEN failed - 1
  ELSE failed

\* The initiator's values with the signature of the signed pre-key mixed
\* into dh4.
InitiatorDH_signed(sess, recipientBundle, ephemeralKey) ==
  LET usedPreKeyIndex == FirstPreKeyIndex(recipientBundle)
      usedPreKey == ArrayGet(recipientBundle.preKeys, usedPreKeyIndex)
      dh1 == deriveSharedSecret(sess.identityKey.privateKey,
                                recipientBundle.identityKey)
      dh2 == deriveSharedSecret(ephemeralKey.privateKey,
                                recipientBundle.identityKey)
      dh3 == deriveSharedSecret(ephemeralKey.privateKey, usedPreKey)
      dh4 == deriveSharedSecret(ephemeralKey.privateKey,
                                recipientBundle.signedPreKey.publicKey)
  IN  <<dh1, dh2, dh3,
        IF dh4 = Thrown THEN Thrown
        ELSE toBase64(fromBase64(dh4) \o fromBase64(recipientBundle.signedPreKey.signature))>>

\* The four Diffie-Hellman values of the initiator.
InitiatorDH(sess, recipientBundle, ephemeralKey) ==
  LET usedPreKeyIndex == FirstPreKeyIndex(recipientBundle)
      usedPreKey == ArrayGet(recipientBundle.preKeys, usedPreKeyIndex)
      dh1 == deriveSharedSecret(sess.identityKey.privateKey,
                                recipientBundle.identityKey)
      dh2 == deriveSharedSecret(ephemeralKey.privateKey,
                                recipientBundle.identityKey)
      dh3 == deriveSharedSecret(ephemeralKey.privateKey, usedPreKey)
      dh4 == deriveSharedSecret(ephemeralKey.privateKey,
                                recipientBundle.signedPreKey.publicKey)
  IN  <<dh1, dh2, dh3, dh4>>

\* The responder's values with the operands of dh3 and dh4 exchanged.
ResponderDH_crossed(sess, senderBundle, ephemeralKey, usedPreKeyIndex) ==
  LET inRange == usedPreKeyIndex >= 0 /\ usedPreKeyIndex < Len(sess.preKeys)
      usedPreKeyPrivate == IF inRange
                           THEN sess.preKeys[usedPreKeyIndex + 1].privateKey
                           ELSE Undefined
      dh1 == deriveSharedSecret(sess.identityKey.privateKey,
                                senderBundle.identityKey)
      dh2 == deriveSharedSecret(sess.identityKey.privateKey, ephemeralKey)
      dh3 == deriveSharedSecret(sess.signedPreKey.privateKey, ephemeralKey)
      dh4 == deriveSharedSecret(usedPreKeyPrivate, ephemeralKey)
  IN  <<dh1, dh2, dh3, dh4>>

\* The four Diffie-Hellman values of the responder.  usedPreKey.privateKey
\* of an undefined usedPreKey is a TypeError.
ResponderDH(sess, senderBundle, ephemeralKey, usedPreKeyIndex) ==
  LET inRange == usedPreKeyIndex >= 0 /\ usedPreKeyIndex < Len(sess.preKeys)
      usedPreKeyPrivate == IF inRange
                           THEN sess.preKeys[usedPreKeyIndex + 1].privateKey
                           ELSE Undefined
      dh1 == deriveSharedSecret(sess.identityKey.privateKey,
                                senderBundle.identityKey)
      dh2 == deriveSharedSecret(sess.identityKey.privateKey, ephemeralKey)
      dh3 == deriveSharedSecret(usedPreKeyPrivate, ephemeralKey)
      dh4 == deriveSharedSecret(sess.signedPreKey.privateKey, ephemeralKey)
  IN  <<dh1, dh2, dh3, dh4>>

\* encryptMessage of X3DH; rnd is what randomBytes returns for the
\* ephemeral key.  threw: the call ended in an exception; dhCalls: the
\* deriveSharedSecret calls made; session: this.session when it ends.
X3DH_encryptMessage(sess, recipientBundle, message, rnd) ==
  LET ephemeralKey == generateKeyPair(rnd)
      dhs == InitiatorDH(sess, recipientBundle, ephemeralKey)
      ops == InitiatorOperands(sess, recipientBundle, ephemeralKey)
      failed == FirstThrown(dhs)
      sharedSecret == IF failed # 0 THEN Thrown ELSE combineSharedSecrets(dhs)
      encryptedMessage == IF failed # 0 THEN Thrown
                          ELSE encrypt(message, sharedSecret)
  IN  [threw |-> failed # 0,
       dhCalls |-> DhCallsMade(ops, failed),
       error |-> DhError(ops, failed),
       kemCalls |-> 0,
       malformed |-> recipientBundle.preKeys = <<>>,
       secrets |-> dhs,
       sharedSecret |-> sharedSecret,
       encryptedMessage |-> encryptedMessage,
       ephemeralKey |-> ephemeralKey.publicKey,
       usedPreKeyIndex |-> FirstPreKeyIndex(recipientBundle),
       ephemeralPrivateKey |-> ephemeralKey.privateKey,
       session |-> sess]

\* decryptMessage of X3DH with [dh2, dh1, dh3, dh4] given to the combiner.
X3DH_decryptMessage_swapped(sess, senderBundle, encryptedMessage, ephemeralKey, usedPreKeyIndex) ==
  LET dhs == ResponderDH(sess, senderBundle, ephemeralKey, usedPreKeyIndex)
      ops == ResponderOperands(sess, senderBundle, ephemeralKey,
                               usedPreKeyIndex)
      failed == FirstThrown(dhs)
      sharedSecret == IF failed # 0 THEN Thrown
                      ELSE combineSharedSecrets(<<dhs[2], dhs[1], dhs[3], dhs[4]>>)
      texts == IF failed # 0 THEN {Thrown}
               ELSE decrypt(encryptedMessage, sharedSecret)
  IN  {[threw |-> text = Thrown,
        dhCalls |-> DhCallsMade(ops, failed),
        error |-> IF failed # 0 THEN DhError(ops, failed)
                  ELSE IF text = Thrown THEN "Error" ELSE "none",
        index |-> usedPreKeyIndex,
        secrets |-> dhs,
        sharedSecret |-> sharedSecret,
        text |-> text,
        session |-> sess] : text \in texts}

\* decryptMessage of X3DH deleting the one-time pre-key it used from the
\* session.
X3DH_decryptMessage_consuming(sess, senderBundle, encryptedMessage, ephemeralKey, usedPreKeyIndex) ==
  LET dhs == ResponderDH(sess, senderBundle, ephemeralKey, usedPreKeyIndex)
      ops == ResponderOperands(sess, senderBundle, ephemeralKey,
                               usedPreKeyIndex)
      failed == FirstThrown(dhs)
      sharedSecret == IF failed # 0 THEN Thrown ELSE combineSharedSecrets(dhs)
      texts == IF failed # 0 THEN {Thrown}
               ELSE decrypt(encryptedMessage, sharedSecret)
      used == usedPreKeyIndex + 1
      kept == [sess EXCEPT !.preKeys =
                 IF used \in 1..Len(@)
                 THEN SubSeq(@, 1, used - 1) \o SubSeq(@, used + 1, Len(@))
                 ELSE @]
  IN  {[threw |-> text = Thrown,
        dhCalls |-> DhCallsMade(ops, failed),
        error |-> IF failed # 0 THEN DhError(ops, failed)
                  ELSE IF text = Thrown THEN "Error" ELSE "none",
        index |-> usedPreKeyIndex,
        secrets |-> dhs,
        sharedSecret |-> sharedSecret,
        text |-> text,
        session |-> kept] : text \in texts}

\* decryptMessage of X3DH: the set of its outcomes.
X3DH_decryptMessage(sess, senderBundle, encryptedMessage, ephemeralKey, usedPreKeyIndex) ==
  LET dhs == ResponderDH(sess, senderBundle, ephemeralKey, usedPreKeyIndex)
      ops == ResponderOperands(sess, senderBundle, ephemeralKey,
                               usedPreKeyIndex)
      failed == FirstThrown(dhs)
      sharedSecret == IF failed # 0 THEN Thrown ELSE combineSharedSecrets(dhs)
      texts == IF failed # 0 THEN {Thrown}
               ELSE decrypt(encryptedMessage, sharedSecret)
  IN  {[threw |-> text = Thrown,
        dhCalls |-> DhCallsMade(ops, failed),
        error |-> IF failed # 0 THEN DhError(ops, failed)
                  ELSE IF text = Thrown THEN "Error" ELSE "none",
        index |-> usedPreKeyIndex,
        secrets |-> dhs,
        sharedSecret |-> sharedSecret,
        text |-> text,
        session |-> sess] : text \in texts}

(***************************************************************************)
(* class PQXDH                                                             *)
(***************************************************************************)
\* The session of PQXDH.initializeSession; pkRef and skRef are the two
\* Uint8Array objects kyber.generateKeyPair returns.
PQXDH_initializeSession(s, pkRef, skRef) ==
  LET identityKey == generateKeyPair(Draw(s, 0))
      preKeys == [i \in 1..NumPreKeys |-> generatePreKey(Draw(s, i))]
      signedPreKey == generateSignedPreKey(identityKey.privateKey,
                                           Draw(s, NumPreKeys + 1))
  IN  [identityKey |-> identityKey,
       preKeys |-> preKeys,
       signedPreKey |-> signedPreKey,
       kyberKeyPair |-> [publicKey |-> pkRef, privateKey |-> skRef]]

\* The contents of the two Uint8Array objects of kyber.generateKeyPair.
PQXDH_kyberKeyPair(s) == MlKem_generateKeyPair(Draw(s, NumPreKeys + 2))

\* The number of randomBytes values one initializeSession takes.
SessionDraws(v) == IF v = "PQXDH" THEN NumPreKeys + 3 ELSE NumPreKeys + 2

\* kyberPublicKey is the session's own Uint8Array object, not a copy.
PQXDH_getPublicBundle(sess) ==
  [identityKey |-> sess.identityKey.publicKey,
   preKeys |-> [i \in 1..Len(sess.preKeys) |-> sess.preKeys[i].publicKey],
   signedPreKey |-> [publicKey |-> sess.signedPreKey.publicKey,
                     signature |-> sess.signedPreKey.signature],
   kyberPublicKey |-> sess.kyberKeyPair.publicKey]

\* encryptMessage of PQXDH up to its await: the frame of the call.
PQXDH_encryptMessage_start(sess, recipientBundle, message, rnd) ==
  LET ephemeralKey == generateKeyPair(rnd)
      dhs == InitiatorDH(sess, recipientBundle, ephemeralKey)
      ops == InitiatorOperands(sess, recipientBundle, ephemeralKey)
      failed == FirstThrown(dhs)
  IN  [threw |-> failed # 0,
       dhCalls |-> DhCallsMade(ops, failed),
       error |-> DhError(ops, failed),
       kemCalls |-> 0,
       malformed |-> \/ recipientBundle.preKeys = <<>>
                     \/ recipientBundle.kyberPublicKey = 0,
       secrets |-> dhs,
       message |-> message,
       ephemeralKey |-> ephemeralKey.publicKey,
       usedPreKeyIndex |-> FirstPreKeyIndex(recipientBundle),
       ephemeralPrivateKey |-> ephemeralKey.privateKey,
       kyberPublicKey |-> recipientBundle.kyberPublicKey]

\* encryptMessage of PQXDH from its await on: kem is what kyber.encap
\* resolved to, <<kyberCiphertext, kyberSharedSecret>>, or Thrown.
PQXDH_encryptMessage_resume(sess, frame, kem) ==
  LET secrets == IF kem = Thrown THEN frame.secrets
                 ELSE Append(frame.secrets, toBase64(kem[2]))
      sharedSecret == IF kem = Thrown THEN Thrown
                      ELSE combineSharedSecrets(secrets)
      encryptedMessage == IF kem = Thrown THEN Thrown
                          ELSE encrypt(frame.message, sharedSecret)
  IN  [threw |-> kem = Thrown,
       dhCalls |-> frame.dhCalls,
       error |-> IF kem # Thrown THEN "none"
                 ELSE IF frame.kyberPublicKey = 0 THEN "TypeError"
                 ELSE "Error",
       kemCalls |-> 1,
       malformed |-> frame.malformed,
       secrets |-> secrets,
       sharedSecret |-> sharedSecret,
       encryptedMessage |-> encryptedMessage,
       ephemeralKey |-> frame.ephemeralKey,
       usedPreKeyIndex |-> frame.usedPreKeyIndex,
       ephemeralPrivateKey |-> frame.ephemeralPrivateKey,
       kyberCiphertext |-> IF kem = Thrown THEN Thrown ELSE kem[1],
       session |-> sess]

\* decryptMessage of PQXDH up to its await.
PQXDH_decryptMessage_start(sess, senderBundle, encryptedMessage, ephemeralKey, usedPreKeyIndex, kyberCiphertext) ==
  LET dhs == ResponderDH(sess, senderBundle, ephemeralKey, usedPreKeyIndex)
      ops == ResponderOperands(sess, senderBundle, ephemeralKey,
                               usedPreKeyIndex)
      failed == FirstThrown(dhs)
  IN  [threw |-> failed # 0,
       dhCalls |-> DhCallsMade(ops, failed),
       error |-> DhError(ops, failed),
       index |-> usedPreKeyIndex,
       secrets |-> dhs,
       encryptedMessage |-> encryptedMessage,
       kyberCiphertext |-> kyberCiphertext,
       kyberPrivateKey |-> sess.kyberKeyPair.privateKey]

\* decryptMessage of PQXDH from its await on, leaving the KEM secret out of
\* the combiner's list.
PQXDH_decryptMessage_resume_noKem(sess, frame, kyberSharedSecret) ==
  LET secrets == frame.secrets
      sharedSecret == IF kyberSharedSecret = Thrown THEN Thrown
                      ELSE combineSharedSecrets(secrets)
      texts == IF kyberSharedSecret = Thrown THEN {Thrown}
               ELSE decrypt(frame.encryptedMessage, sharedSecret)
  IN  {[threw |-> text = Thrown,
        dhCalls |-> frame.dhCalls,
        error |-> IF text = Thrown THEN "Error" ELSE "none",
        index |-> frame.index,
        secrets |-> secrets,
        sharedSecret |-> sharedSecret,
        text |-> text,
        session |-> sess] : text \in texts}

\* decryptMessage of PQXDH from its await on: the set of its outcomes;
\* kyberSharedSecret is what kyber.decap resolved to, or Thrown.
PQXDH_decryptMessage_resume(sess, frame, kyberSharedSecret) ==
  LET secrets == IF kyberSharedSecret = Thrown THEN frame.secrets
                 ELSE Append(frame.secrets, toBase64(kyberSharedSecret))
      sharedSecret == IF kyberSharedSecret = Thrown THEN Thrown
                      ELSE combineSharedSecrets(secrets)
      texts == IF kyberSharedSecret = Thrown THEN {Thrown}
               ELSE decrypt(frame.encryptedMessage, sharedSecret)
  IN  {[threw |-> text = Thrown,
        dhCalls |-> frame.dhCalls,
        error |-> IF text = Thrown THEN "Error" ELSE "none",
        index |-> frame.index,
        secrets |-> secrets,
        sharedSecret |-> sharedSecret,
        text |-> text,
        session |-> sess] : text \in texts}

(***************************************************************************)
(* The parties and what they hold.                                         *)
(***************************************************************************)
Hybrid == variant = "PQXDH"

\* The bytes of the Uint8Array object ref; Undefined where there is none.
HeapGet(ref) == IF ref >= 1 /\ ref <= Len(heap) THEN heap[ref] ELSE Undefined

RemoveAt(seq, i) == SubSeq(seq, 1, i - 1) \o SubSeq(seq, i + 1, Len(seq))

\* p.getPublicBundle()
GetBundle(p) ==
  IF Hybrid THEN PQXDH_getPublicBundle(session[p])
  ELSE X3DH_getPublicBundle(session[p])

\* Bundle b is what its owner published: no field was changed, and the KEM
\* public key still belongs to the owner's KEM private key.
BundleIntact(b) ==
  LET owner == bundles[b].owner
  IN  /\ bundles[b].obj = GetBundle(owner)
      /\ Hybrid =>
           HeapGet(bundles[b].obj.kyberPublicKey) =
             MlKem_publicKey(HeapGet(session[owner].kyberKeyPair.privateKey))

\* The fields of bundle b that are not as its owner published them;
\* "kyberPublicKey[]" stands for the bytes of the KEM public key.
BundleAltered(b) ==
  LET owner == bundles[b].owner
      obj == bundles[b].obj
      own == GetBundle(owner)
  IN  {f \in {"identityKey"} : obj.identityKey # own.identityKey}
      \cup
      {f \in {"preKeys"} : obj.preKeys # own.preKeys}
      \cup
      {f \in {"signedPreKey.publicKey"} :
         obj.signedPreKey.publicKey # own.signedPreKey.publicKey}
      \cup
      {f \in {"signedPreKey.signature"} :
         obj.signedPreKey.signature # own.signedPreKey.signature}
      \cup
      {f \in {"kyberPublicKey"} :
         Hybrid /\ obj.kyberPublicKey # own.kyberPublicKey}
      \cup
      {f \in {"kyberPublicKey[]"} :
         Hybrid /\ HeapGet(obj.kyberPublicKey) #
           MlKem_publicKey(HeapGet(session[owner].kyberKeyPair.privateKey))}

\* What a call is given with bundle b: its identityKey, its preKeys array,
\* and which of its fields are not the owner's.
Given(b) ==
  [identityKey |-> bundles[b].obj.identityKey,
   preKeys |-> bundles[b].obj.preKeys,
   altered |-> BundleAltered(b)]

\* The fields of message j that are not as encryptMessage returned them.
Altered(j) ==
  {f \in {"ephemeralKey"} : wire[j].ephemeralKey # wire[j].sentEphemeralKey}
  \cup
  {f \in {"usedPreKeyIndex"} : wire[j].usedPreKeyIndex # wire[j].sentIndex}
  \cup
  {f \in {"kyberCiphertext"} :
     Hybrid /\ HeapGet(wire[j].kyberCiphertext) # wire[j].sentCiphertext}

\* Message j is as encryptMessage returned it.
Pristine(j) == Altered(j) = {}

\* p is the party message j was encrypted to, with its own published
\* bundle, and b is the published bundle of j's sender.
Rightful(p, b, j) ==
  /\ wire[j].to = p
  /\ wire[j].intact
  /\ bundles[b].owner = wire[j].sender
  /\ BundleIntact(b)

\* p decrypting message j with sender bundle b is an honest run: j was
\* encrypted to p's own published bundle, is unaltered, and b is the
\* published bundle of j's sender.
Honest(p, b, j) == Rightful(p, b, j) /\ Pristine(j)

NoCall ==
  [op |-> "none", party |-> "none", bundle |-> 0, msg |-> 0, threw |-> FALSE,
   error |-> "none", kemCalls |-> 0, index |-> 0, malformed |-> FALSE,
   dhCalls |-> 0, secrets |-> <<>>, sharedSecret |-> <<>>, text |-> <<>>,
   honest |-> FALSE, rightful |-> FALSE, altered |-> {},
   overlapped |-> FALSE, bundleAltered |-> {}, identityKey |-> <<>>,
   sentText |-> <<>>, sentSecrets |-> <<>>, sentSharedSecret |-> <<>>]

\* The generator state the seed-th run of the program starts in.
FirstSeed(seed) == seed * 101

\* The generator state at which the second party is constructed.
SecondSeed(seed, v) == RngAfter(seed, SessionDraws(v) * KeyLen)

\* The sessions of new X3DH() / PQXDH.create() for alice, then bob.
InitialSessions(seed, v) ==
  IF v = "PQXDH"
  THEN [alice |-> PQXDH_initializeSession(seed, 1, 2),
        bob |-> PQXDH_initializeSession(SecondSeed(seed, v), 3, 4)]
  ELSE [alice |-> X3DH_initializeSession(seed),
        bob |-> X3DH_initializeSession(SecondSeed(seed, v))]

InitialHeap(seed, v) ==
  IF v = "PQXDH"
  THEN PQXDH_kyberKeyPair(seed) \o PQXDH_kyberKeyPair(SecondSeed(seed, v))
  ELSE <<>>

Init ==
  \E seed \in 1..MaxSeed, v \in Variants :
    /\ variant = v
    /\ session = InitialSessions(FirstSeed(seed), v)
    /\ heap = InitialHeap(FirstSeed(seed), v)
    /\ rng = RngAfter(SecondSeed(FirstSeed(seed), v), SessionDraws(v) * KeyLen)
    /\ bundles = <<>>
    /\ wire = <<>>
    /\ calls = <<>>
    /\ last = NoCall
    /\ sent = 0
    /\ edits = 0
    /\ inputs = <<>>
    /\ outputs = <<>>

(***************************************************************************)
(* The operations.                                                         *)
(***************************************************************************)
\* A caller obtains p.getPublicBundle() and keeps the object; returned is
\* the object as the call returned it.
GetPublicBundle(p) ==
  /\ Len(bundles) < MaxBundles
  /\ bundles' = Append(bundles, [owner |-> p, obj |-> GetBundle(p),
                                 returned |-> GetBundle(p)])
  /\ last' = [NoCall EXCEPT !.op = "getPublicBundle", !.party = p,
                            !.bundle = Len(bundles) + 1]
  /\ UNCHANGED <<inputs, outputs, variant, session, heap, rng, wire, calls, sent, edits>>

\* The record of a completed encryptMessage call.
EncryptDone(p, b, m, r, intact) ==
  [NoCall EXCEPT !.op = "encryptMessage", !.party = p, !.bundle = b,
                 !.msg = IF r.threw THEN 0 ELSE Len(wire) + 1,
                 !.threw = r.threw, !.dhCalls = r.dhCalls,
                 !.error = r.error, !.kemCalls = r.kemCalls,
                 !.malformed = r.malformed,
                 !.index = IF r.threw THEN 0 ELSE r.usedPreKeyIndex,
                 !.secrets = r.secrets, !.sharedSecret = r.sharedSecret,
                 !.honest = intact, !.sentText = m]

\* The EncryptedMessage object a completed encryptMessage call returned,
\* with who made it, for whom, what the bundle the call was given was, and
\* what the message was when returned.
Artifact(p, b, m, r, intact, ctRef, given) ==
  [sender |-> p, to |-> bundles[b].owner, intact |-> intact, plaintext |-> m,
   givenPreKeys |-> given.preKeys, bundleAltered |-> given.altered,
   secrets |-> r.secrets, sharedSecret |-> r.sharedSecret,
   encryptedMessage |-> r.encryptedMessage,
   ephemeralKey |-> r.ephemeralKey,
   usedPreKeyIndex |-> r.usedPreKeyIndex,
   kyberCiphertext |-> ctRef,
   ephemeralPrivateKey |-> r.ephemeralPrivateKey,
   sentEphemeralKey |-> r.ephemeralKey,
   sentIndex |-> r.usedPreKeyIndex,
   sentCiphertext |-> IF ctRef = 0 THEN <<>> ELSE r.kyberCiphertext]

\* p.encryptMessage(bundles[b], m) of X3DH, as it acts on the program.
X3DH_EncryptCall(p, b, m) ==
  /\ variant = "X3DH"
  /\ sent + edits < MaxSends
  /\ LET r == X3DH_encryptMessage(session[p], bundles[b].obj, m, Draw(rng, 0))
     IN  /\ session' = [session EXCEPT ![p] = r.session]
         /\ wire' = IF r.threw THEN wire
                    ELSE Append(wire, Artifact(p, b, m, r, BundleIntact(b), 0,
                                               Given(b)))
         /\ last' = [EncryptDone(p, b, m, r, BundleIntact(b))
                       EXCEPT !.bundleAltered = BundleAltered(b)]
  /\ rng' = RngAfter(rng, KeyLen)
  /\ sent' = sent + 1
  /\ UNCHANGED <<variant, heap, bundles, calls, edits>>

\* p.encryptMessage(bundles[b], m) of X3DH.
X3DH_Encrypt(p, b, m) == X3DH_EncryptCall(p, b, m) /\ UNCHANGED <<inputs, outputs>>

\* The record of a completed decryptMessage call.
DecryptDone(p, b, j, o, rightful, altered) ==
  [NoCall EXCEPT !.op = "decryptMessage", !.party = p, !.bundle = b,
                 !.msg = j, !.threw = o.threw, !.dhCalls = o.dhCalls,
                 !.error = o.error, !.index = o.index,
                 !.secrets = o.secrets, !.sharedSecret = o.sharedSecret,
                 !.text = o.text, !.honest = rightful /\ altered = {},
                 !.rightful = rightful, !.altered = altered,
                 !.sentText = wire[j].plaintext,
                 !.sentSecrets = wire[j].secrets,
                 !.sentSharedSecret = wire[j].sharedSecret]

\* p.decryptMessage(bundles[b], ...wire[j]) of X3DH, as it acts on the
\* program.
X3DH_DecryptCall(p, b, j) ==
  /\ variant = "X3DH"
  /\ \E o \in X3DH_decryptMessage(session[p], bundles[b].obj,
                                  wire[j].encryptedMessage,
                                  wire[j].ephemeralKey,
                                  wire[j].usedPreKeyIndex) :
       /\ session' = [session EXCEPT ![p] = o.session]
       /\ last' = [DecryptDone(p, b, j, o, Rightful(p, b, j), Altered(j))
                     EXCEPT !.bundleAltered = BundleAltered(b),
                            !.identityKey = bundles[b].obj.identityKey]
  /\ UNCHANGED <<variant, heap, rng, bundles, wire, calls, sent, edits>>

\* p.decryptMessage(bundles[b], ...wire[j]) of X3DH.
X3DH_Decrypt(p, b, j) == X3DH_DecryptCall(p, b, j) /\ UNCHANGED <<inputs, outputs>>

\* The calls in flight when one more call starts: each of them now has
\* had another call in flight beside it.
Overlapping(cs) == [c \in 1..Len(cs) |-> [cs[c] EXCEPT !.overlapped = TRUE]]

\* The locals of the suspended call c, which its continuation resumes with.
\* Here they are fields of the instance, which the call of the same
\* operation that started last has overwritten.
FrameOf_shared(c) ==
  LET same == {d \in 1..Len(calls) : calls[d].op = calls[c].op}
  IN  calls[CHOOSE d \in same : \A e \in same : e <= d].frame

\* The locals of the suspended call c, which its continuation resumes with.
FrameOf(c) == calls[c].frame

\* p.encryptMessage(bundles[b], m) of PQXDH runs to its await, or throws,
\* with fewer than flight calls suspended.
PQXDH_EncryptStartWithin(p, b, m, flight) ==
  /\ variant = "PQXDH"
  /\ sent + edits < MaxSends
  /\ Len(calls) < flight
  /\ LET f == PQXDH_encryptMessage_start(session[p], bundles[b].obj, m,
                                         Draw(rng, 0))
     IN  IF f.threw
         THEN /\ last' = [EncryptDone(p, b, m,
                            f @@ [sharedSecret |-> Thrown], FALSE)
                          EXCEPT !.bundleAltered = BundleAltered(b)]
              /\ calls' = calls
         ELSE /\ calls' = Append(Overlapping(calls),
                            [op |-> "encryptMessage", party |-> p,
                             bundle |-> b, msg |-> 0, message |-> m,
                             overlapped |-> calls # <<>>,
                             honest |-> bundles[b].obj = GetBundle(bundles[b].owner),
                             given |-> Given(b),
                             altered |-> {}, frame |-> f])
              /\ last' = last
  /\ rng' = RngAfter(rng, KeyLen)
  /\ sent' = sent + 1
  /\ UNCHANGED <<inputs, outputs, variant, session, heap, bundles, wire, edits>>

\* p.encryptMessage(bundles[b], m) of PQXDH runs to its await, or throws.
PQXDH_EncryptStart(p, b, m) == PQXDH_EncryptStartWithin(p, b, m, MaxCalls)

\* kyber.encap resolves and the suspended encryptMessage call c completes,
\* as it acts on the program.
PQXDH_EncryptResumeCall(c) ==
  /\ calls[c].op = "encryptMessage"
  /\ LET call == calls[c]
         p == call.party
         b == call.bundle
         frame == FrameOf(c)
         pk == HeapGet(frame.kyberPublicKey)
         kem == IF pk = Undefined THEN Thrown ELSE MlKem_encap(pk, Draw(rng, 0))
         r == PQXDH_encryptMessage_resume(session[p], frame, kem)
         intact == call.honest /\ BundleIntact(b)
     IN  /\ session' = [session EXCEPT ![p] = r.session]
         /\ heap' = IF r.threw THEN heap ELSE Append(heap, r.kyberCiphertext)
         /\ wire' = IF r.threw THEN wire
                    ELSE Append(wire, Artifact(p, b, call.message, r,
                                               intact, Len(heap) + 1,
                                               [call.given EXCEPT !.altered = @ \cup (BundleAltered(b) \cap {"kyberPublicKey[]"})]))
         /\ last' = [EncryptDone(p, b, call.message, r, intact)
                       EXCEPT !.overlapped = call.overlapped,
                              !.bundleAltered = call.given.altered \cup (BundleAltered(b) \cap {"kyberPublicKey[]"})]
  /\ calls' = RemoveAt(calls, c)
  /\ rng' = RngAfter(rng, KeyLen)
  /\ UNCHANGED <<variant, bundles, sent, edits>>

\* kyber.encap resolves and the suspended encryptMessage call c completes.
PQXDH_EncryptResume(c) == PQXDH_EncryptResumeCall(c) /\ UNCHANGED <<inputs, outputs>>

\* p.decryptMessage(bundles[b], ...wire[j]) of PQXDH runs to its await, or
\* throws, with fewer than flight calls suspended.
PQXDH_DecryptStartWithin(p, b, j, flight) ==
  /\ variant = "PQXDH"
  /\ Len(calls) < flight
  /\ LET f == PQXDH_decryptMessage_start(session[p], bundles[b].obj,
                                         wire[j].encryptedMessage,
                                         wire[j].ephemeralKey,
                                         wire[j].usedPreKeyIndex,
                                         wire[j].kyberCiphertext)
     IN  IF f.threw
         THEN /\ last' = [DecryptDone(p, b, j,
                            f @@ [sharedSecret |-> Thrown, text |-> Thrown],
                            Rightful(p, b, j), Altered(j))
                          EXCEPT !.bundleAltered = BundleAltered(b),
                                 !.identityKey = bundles[b].obj.identityKey]
              /\ calls' = calls
         ELSE /\ calls' = Append(Overlapping(calls),
                            [op |-> "decryptMessage", party |-> p,
                             bundle |-> b, msg |-> j, message |-> <<>>,
                             overlapped |-> calls # <<>>,
                             honest |-> Rightful(p, b, j),
                             given |-> Given(b),
                             altered |-> Altered(j), frame |-> f])
              /\ last' = last
  /\ UNCHANGED <<inputs, outputs, variant, session, heap, rng, bundles, wire, sent, edits>>

\* p.decryptMessage(bundles[b], ...wire[j]) of PQXDH runs to its await, or
\* throws.
PQXDH_DecryptStart(p, b, j) == PQXDH_DecryptStartWithin(p, b, j, MaxCalls)

\* kyber.decap resolves and the suspended decryptMessage call c completes,
\* as it acts on the program.
PQXDH_DecryptResumeCall(c) ==
  /\ calls[c].op = "decryptMessage"
  /\ LET call == calls[c]
         p == call.party
         frame == FrameOf(c)
         ct == HeapGet(frame.kyberCiphertext)
         sk == HeapGet(frame.kyberPrivateKey)
         ss == IF ct = Undefined \/ sk = Undefined THEN Thrown
               ELSE MlKem_decap(ct, sk)
     IN  \E o \in PQXDH_decryptMessage_resume(session[p], frame, ss) :
           /\ session' = [session EXCEPT ![p] = o.session]
           /\ last' = [DecryptDone(p, call.bundle, call.msg, o,
                                   call.honest,
                                   call.altered \cup
                                     (Altered(call.msg) \cap {"kyberCiphertext"}))
                         EXCEPT !.overlapped = call.overlapped,
                                !.bundleAltered = call.given.altered,
                                !.identityKey = call.given.identityKey]
  /\ calls' = RemoveAt(calls, c)
  /\ UNCHANGED <<variant, heap, rng, bundles, wire, sent, edits>>

\* kyber.decap resolves and the suspended decryptMessage call c completes.
PQXDH_DecryptResume(c) == PQXDH_DecryptResumeCall(c) /\ UNCHANGED <<inputs, outputs>>

(***************************************************************************)
(* What the holder of a Bundle or of an EncryptedMessage can do to it.     *)
(***************************************************************************)
\* bytes with bit k (0 the lowest) of byte i flipped.
FlipBit(bytes, i, k) ==
  [bytes EXCEPT ![i] = IF (@ \div Pow2(k)) % 2 = 1 THEN @ - Pow2(k)
                       ELSE @ + Pow2(k)]

\* The base64 text of the key with one bit of its bytes flipped.
FlipKeyBit(key, i, k) == toBase64(FlipBit(fromBase64(key), i, k))

\* The base64 text with the lowest bit of its last digit flipped.  The last
\* digit of the text of a 32-byte key carries four bits of the key and two
\* unused bits: this is another text for the same bytes.
FlipUnusedBit(key) ==
  LET n == Len(B64Digits(key))
  IN  [key EXCEPT ![n] = IF B64Value(@) % 2 = 0 THEN B64Char(B64Value(@) + 1)
                         ELSE B64Char(B64Value(@) - 1)]

BundleEdits ==
  {"identityKey", "identityKey.top", "preKeys[0]", "preKeys.length", "signedPreKey.publicKey",
   "signedPreKey.signature", "kyberPublicKey[0]", "kyberPublicKey",
   "delete kyberPublicKey"}

\* The holder of bundle object b assigns to one of its fields, or writes
\* into the Uint8Array its kyberPublicKey field refers to.
EditBundle(b, e) ==
  /\ edits < MaxEdits
  /\ sent + edits < MaxSends
  /\ e \in {"kyberPublicKey[0]", "kyberPublicKey", "delete kyberPublicKey"}
       => Hybrid
  /\ e \in {"kyberPublicKey[0]", "kyberPublicKey"}
       => bundles[b].obj.kyberPublicKey # 0
  /\ LET obj == bundles[b].obj
         new ==
           CASE e = "identityKey" ->
                  [obj EXCEPT !.identityKey = FlipKeyBit(@, 1, 0)]
             [] e = "identityKey.top" ->
                  [obj EXCEPT !.identityKey = FlipKeyBit(@, KeyLen, 7)]
             [] e = "preKeys[0]" ->
                  [obj EXCEPT !.preKeys[1] = FlipKeyBit(@, 1, 0)]
             [] e = "preKeys.length" ->
                  [obj EXCEPT !.preKeys = <<>>]
             [] e = "signedPreKey.publicKey" ->
                  [obj EXCEPT !.signedPreKey.publicKey = FlipKeyBit(@, 1, 0)]
             [] e = "signedPreKey.signature" ->
                  [obj EXCEPT !.signedPreKey.signature = FlipKeyBit(@, 1, 0)]
             [] e = "kyberPublicKey" ->
                  [obj EXCEPT !.kyberPublicKey = Len(heap) + 1]
             [] e = "delete kyberPublicKey" ->
                  [obj EXCEPT !.kyberPublicKey = 0]
             [] OTHER -> obj
     IN  /\ bundles' = [bundles EXCEPT ![b].obj = new]
         /\ heap' =
              CASE e = "kyberPublicKey[0]" ->
                     [heap EXCEPT ![obj.kyberPublicKey] = FlipBit(@, 1, 0)]
                [] e = "kyberPublicKey" ->
                     Append(heap, FlipBit(heap[obj.kyberPublicKey], 1, 0))
                [] OTHER -> heap
  /\ edits' = edits + 1
  /\ UNCHANGED <<inputs, outputs, variant, session, rng, wire, calls, last, sent>>

MessageEdits ==
  {"ephemeralKey.unused", "ephemeralKey.top", "ephemeralKey.low",
   "usedPreKeyIndex=-1", "usedPreKeyIndex=1", "usedPreKeyIndex=10",
   "kyberCiphertext[0]"}

\* Someone between sender and recipient alters message j.
TamperMessage(j, e) ==
  /\ edits < MaxEdits
  /\ sent + edits < MaxSends
  /\ e = "kyberCiphertext[0]" => Hybrid
  /\ wire' =
       CASE e = "ephemeralKey.unused" ->
              [wire EXCEPT ![j].ephemeralKey = FlipUnusedBit(@)]
         [] e = "ephemeralKey.top" ->
              [wire EXCEPT ![j].ephemeralKey = FlipKeyBit(@, KeyLen, 7)]
         [] e = "ephemeralKey.low" ->
              [wire EXCEPT ![j].ephemeralKey = FlipKeyBit(@, 1, 0)]
         [] e = "usedPreKeyIndex=-1" ->
              [wire EXCEPT ![j].usedPreKeyIndex = -1]
         [] e = "usedPreKeyIndex=1" ->
              [wire EXCEPT ![j].usedPreKeyIndex = 1]
         [] e = "usedPreKeyIndex=10" ->
              [wire EXCEPT ![j].usedPreKeyIndex = NumPreKeys]
         [] OTHER -> wire
  /\ heap' = IF e = "kyberCiphertext[0]"
             THEN [heap EXCEPT ![wire[j].kyberCiphertext] = FlipBit(@, 1, 0)]
             ELSE heap
  /\ edits' = edits + 1
  /\ UNCHANGED <<inputs, outputs, variant, session, rng, bundles, calls, last, sent>>

Next ==
  \/ \E p \in Parties : GetPublicBundle(p)
  \/ \E p \in Parties, b \in 1..Len(bundles) :
       X3DH_Encrypt(p, b, NextMessage)
  \/ \E p \in Parties, b \in 1..Len(bundles), j \in 1..Len(wire) :
       X3DH_Decrypt(p, b, j)
  \/ \E p \in Parties, b \in 1..Len(bundles) :
       PQXDH_EncryptStart(p, b, NextMessage)
  \/ \E c \in 1..Len(calls) : PQXDH_EncryptResume(c)
  \/ \E p \in Parties, b \in 1..Len(bundles), j \in 1..Len(wire) :
       PQXDH_DecryptStart(p, b, j)
  \/ \E c \in 1..Len(calls) : PQXDH_DecryptResume(c)
  \/ \E b \in 1..Len(bundles), e \in BundleEdits : EditBundle(b, e)
  \/ \E j \in 1..Len(wire), e \in MessageEdits : TamperMessage(j, e)

Spec == Init /\ [][Next]_vars

(***************************************************************************)
(* PQXDH calls in flight together.                                         *)
(***************************************************************************)
\* Both parties exist and each one's getPublicBundle() has been fetched.
InitAsync ==
  \E seed \in 1..MaxSeed :
    /\ variant = "PQXDH"
    /\ session = InitialSessions(FirstSeed(seed), "PQXDH")
    /\ heap = InitialHeap(FirstSeed(seed), "PQXDH")
    /\ rng = RngAfter(SecondSeed(FirstSeed(seed), "PQXDH"),
                      SessionDraws("PQXDH") * KeyLen)
    /\ bundles = <<[owner |-> "alice", obj |-> GetBundle("alice"),
                    returned |-> GetBundle("alice")],
                   [owner |-> "bob", obj |-> GetBundle("bob"),
                    returned |-> GetBundle("bob")]>>
    /\ wire = <<>>
    /\ calls = <<>>
    /\ last = NoCall
    /\ sent = 0
    /\ edits = 0
    /\ inputs = <<>>
    /\ outputs = <<>>

\* Calls start while others are suspended at their await, and the
\* suspended calls resume in any order.  Each message is decrypted by the
\* party it was encrypted to, with the bundle of its sender.
NextAsync ==
  \/ \E p \in Parties, b \in 1..Len(bundles) :
       PQXDH_EncryptStartWithin(p, b, NextMessage, MaxFlight)
  \/ \E c \in 1..Len(calls) : PQXDH_EncryptResume(c)
  \/ \E b \in 1..Len(bundles), j \in 1..Len(wire) :
       /\ bundles[b].owner = wire[j].sender
       /\ PQXDH_DecryptStartWithin(wire[j].to, b, j, MaxFlight)
  \/ \E c \in 1..Len(calls) : PQXDH_DecryptResume(c)

SpecAsync == InitAsync /\ [][NextAsync]_vars

(***************************************************************************)
(* Conversations: the parties exchange messages over fetched bundles.      *)
(***************************************************************************)
\* Both parties exist and each one's getPublicBundle() has been fetched.
InitConversation ==
  \E seed \in 1..MaxSeed, v \in Variants :
    /\ variant = v
    /\ session = InitialSessions(FirstSeed(seed), v)
    /\ heap = InitialHeap(FirstSeed(seed), v)
    /\ rng = RngAfter(SecondSeed(FirstSeed(seed), v), SessionDraws(v) * KeyLen)
    /\ bundles = <<[owner |-> "alice", obj |-> GetBundle("alice"),
                    returned |-> GetBundle("alice")],
                   [owner |-> "bob", obj |-> GetBundle("bob"),
                    returned |-> GetBundle("bob")]>>
    /\ wire = <<>>
    /\ calls = <<>>
    /\ last = NoCall
    /\ sent = 0
    /\ edits = 0
    /\ inputs = <<>>
    /\ outputs = <<>>

\* The texts a party may say, each any number of times.
Said == {messages[1], messages[2]}

\* The call that completes in this step is entered in the log of the
\* conversation, which outputs holds.
Logged ==
  /\ outputs' = Append(outputs, [op |-> last'.op, party |-> last'.party, msg |-> last'.msg, text |-> last'.text])
  /\ inputs' = inputs

\* The conversation has room for one more call.
Room == Len(outputs) + Len(calls) < MaxLog

\* Any party encrypts any text to any bundle; each message is decrypted by
\* the party it was encrypted to, with the bundle of its sender, in any
\* order and any number of times.
NextConversation ==
  \/ \E p \in Parties, b \in 1..Len(bundles), m \in Said :
       Room /\ X3DH_EncryptCall(p, b, m) /\ Logged
  \/ \E b \in 1..Len(bundles), j \in 1..Len(wire) :
       /\ bundles[b].owner = wire[j].sender
       /\ Room /\ X3DH_DecryptCall(wire[j].to, b, j) /\ Logged
  \/ \E p \in Parties, b \in 1..Len(bundles), m \in Said :
       Room /\ PQXDH_EncryptStart(p, b, m)
  \/ \E c \in 1..Len(calls) : PQXDH_EncryptResumeCall(c) /\ Logged
  \/ \E b \in 1..Len(bundles), j \in 1..Len(wire) :
       /\ bundles[b].owner = wire[j].sender
       /\ Room /\ PQXDH_DecryptStart(wire[j].to, b, j)
  \/ \E c \in 1..Len(calls) : PQXDH_DecryptResumeCall(c) /\ Logged

SpecConversation == InitConversation /\ [][NextConversation]_vars

(***************************************************************************)
(* CryptoUtils functions tried on their own.                               *)
(***************************************************************************)
\* No party has done anything.
Idle ==
  /\ variant = "X3DH"
  /\ session = InitialSessions(FirstSeed(1), "X3DH")
  /\ heap = <<>>
  /\ rng = 0
  /\ bundles = <<>>
  /\ wire = <<>>
  /\ calls = <<>>
  /\ last = NoCall
  /\ sent = 0
  /\ edits = 0

\* The sessions new X3DH() makes, for every seed.
GeneratedSessions ==
  {InitialSessions(FirstSeed(seed), "X3DH")[p] :
     seed \in 1..MaxSeed, p \in Parties}

\* Identity keys generateSafetyNumber can be given: the generated ones, each
\* with one bit of its first byte flipped, and each in its other text.
IdentityKeyTexts ==
  LET generated == {sess.identityKey.publicKey : sess \in GeneratedSessions}
  IN  generated \cup {FlipKeyBit(k, 1, 0) : k \in generated}
                \cup {FlipUnusedBit(k) : k \in generated}

InitSafety ==
  /\ Idle
  /\ \E key1 \in IdentityKeyTexts, key2 \in IdentityKeyTexts,
        key3 \in IdentityKeyTexts : inputs = <<key1, key2, key3>>
  /\ outputs = <<>>

\* generateSafetyNumber(key1, key2), generateSafetyNumber(key2, key1) and
\* generateSafetyNumber(key1, key3).
SafetyNumbers ==
  /\ outputs = <<>>
  /\ outputs' = <<generateSafetyNumber(inputs[1], inputs[2]),
                  generateSafetyNumber(inputs[2], inputs[1]),
                  generateSafetyNumber(inputs[1], inputs[3])>>
  /\ UNCHANGED <<inputs, variant, session, heap, rng, bundles, wire, calls,
                 last, sent, edits>>

NextSafety == SafetyNumbers

SpecSafety == InitSafety /\ [][NextSafety]_vars

\* Secrets combineSharedSecrets is given: results of deriveSharedSecret.
SharedSecretTexts ==
  {deriveSharedSecret(a.identityKey.privateKey, b.identityKey.publicKey) :
     a \in GeneratedSessions, b \in GeneratedSessions}

InitCombine ==
  /\ Idle
  /\ \E s1 \in SharedSecretTexts, s2 \in SharedSecretTexts,
        s3 \in SharedSecretTexts, s4 \in SharedSecretTexts :
       inputs = <<s1, s2, s3, s4>>
  /\ outputs = <<>>

\* combineSharedSecrets of the list, of the list with its first two
\* elements exchanged, and of the list without its i-th element, i = 1..4.
Combine ==
  /\ outputs = <<>>
  /\ outputs' =
       <<combineSharedSecrets(inputs),
         combineSharedSecrets(<<inputs[2], inputs[1], inputs[3], inputs[4]>>)>>
       \o [i \in 1..Len(inputs) |-> combineSharedSecrets(RemoveAt(inputs, i))]
  /\ UNCHANGED <<inputs, variant, session, heap, rng, bundles, wire, calls,
                 last, sent, edits>>

NextCombine == Combine

SpecCombine == InitCombine /\ [][NextCombine]_vars

\* Two secrets of a session: dh1 and dh4 of alice for bob's bundle, with
\* alice's identity key in place of an ephemeral key.
BoundarySecrets ==
  LET sess == InitialSessions(FirstSeed(1), "X3DH")
      priv == sess["alice"].identityKey.privateKey
  IN  <<deriveSharedSecret(priv, sess["bob"].identityKey.publicKey),
        deriveSharedSecret(priv, sess["bob"].signedPreKey.publicKey)>>

\* Byte strings cut from and joined of the two secrets: each secret, its
\* first byte, its other bytes, every two secrets joined, and no bytes.
Pieces ==
  LET whole == {fromBase64(BoundarySecrets[i]) : i \in 1..2}
  IN  whole \cup {SubSeq(x, 1, 1) : x \in whole}
            \cup {SubSeq(x, 2, Len(x)) : x \in whole}
            \cup {x \o y : x \in whole, y \in whole}
            \cup {<<>>}

\* The elements combineSharedSecrets is given: the base64 text of every
\* piece, and the other text of the first secret.
PieceTexts == {toBase64(x) : x \in Pieces} \cup {FlipUnusedBit(BoundarySecrets[1])}

\* The lists of one to MaxParts elements.
PieceLists == UNION {[1..n -> PieceTexts] : n \in 1..MaxParts}

InitBoundaries ==
  /\ Idle
  /\ \E xs \in PieceLists, ys \in PieceLists : inputs = <<xs, ys>>
  /\ outputs = <<>>

\* combineSharedSecrets(xs) and combineSharedSecrets(ys).
CombineBoth ==
  /\ outputs = <<>>
  /\ outputs' = <<combineSharedSecrets(inputs[1]), combineSharedSecrets(inputs[2])>>
  /\ UNCHANGED <<inputs, variant, session, heap, rng, bundles, wire, calls,
                 last, sent, edits>>

NextBoundaries == CombineBoth

SpecBoundaries == InitBoundaries /\ [][NextBoundaries]_vars

(***************************************************************************)
(* The properties.                                                         *)
(***************************************************************************)
\* The call that completed last is a decryptMessage of an honest run.
HonestDecrypt == last.op = "decryptMessage" /\ last.honest

\* C1: when an X3DH party decrypts, with the sender's published bundle,
\* exactly what encryptMessage returned for a message encrypted to its own
\* published bundle, decryptMessage returns that message.
C1_ClassicalRoundTrip ==
  (variant = "X3DH" /\ HonestDecrypt) =>
    (~last.threw /\ last.text = last.sentText)

\* The second message of a conversation, sent by the party that received
\* the first, has been decrypted to what was sent.
C1_Witness ==
  /\ variant = "X3DH"
  /\ HonestDecrypt
  /\ last.msg = 2
  /\ wire[1].sender # wire[2].sender
  /\ last.text = messages[2]

\* C2: in the hybrid variant the KEM secret the recipient decapsulates from
\* the returned kyberCiphertext is the one the sender encapsulated, and
\* decryptMessage returns the message.
C2_HybridRoundTrip ==
  (variant = "PQXDH" /\ HonestDecrypt) =>
    /\ ~last.threw
    /\ Len(last.secrets) = 5
    /\ last.secrets[5] = last.sentSecrets[5]
    /\ HeapGet(wire[last.msg].kyberCiphertext) # <<>>
    /\ last.text = last.sentText

C2_Witness ==
  /\ variant = "PQXDH"
  /\ HonestDecrypt
  /\ last.party = "bob"
  /\ last.secrets[5] = last.sentSecrets[5]
  /\ last.text = messages[1]

\* C3: in an honest run the responder's list of secrets equals the
\* initiator's position by position, and so do the two session secrets.
C3_MirroredAgreement ==
  HonestDecrypt =>
    /\ Len(last.secrets) = IF Hybrid THEN 5 ELSE 4
    /\ Len(last.sentSecrets) = Len(last.secrets)
    /\ \A i \in 1..Len(last.secrets) : last.secrets[i] = last.sentSecrets[i]
    /\ last.sharedSecret = last.sentSharedSecret

\* alice as responder agrees with bob on four pairwise different values.
C3_Witness ==
  /\ HonestDecrypt
  /\ last.party = "alice"
  /\ last.sharedSecret = last.sentSharedSecret
  /\ Cardinality({last.secrets[i] : i \in 1..4}) = 4

\* The Session of p by value: its fields, and the bytes of its KEM keys.
SessionValue(p) ==
  <<session[p],
    IF Hybrid
    THEN <<HeapGet(session[p].kyberKeyPair.publicKey),
           HeapGet(session[p].kyberKeyPair.privateKey)>>
    ELSE <<>> >>

\* A Bundle object by value: its fields, and the bytes of its KEM key.
BundleValue(obj) ==
  <<[identityKey |-> obj.identityKey, preKeys |-> obj.preKeys,
     signedPreKey |-> obj.signedPreKey],
    IF Hybrid THEN HeapGet(obj.kyberPublicKey) ELSE <<>> >>

\* A key text together with the bytes it stands for.
BothForms(texts) == texts \cup {fromBase64(t) : t \in texts}

\* The private keys of p: identity, pre-keys, signed pre-key, the ephemeral
\* keys of the messages it sent, and its KEM private key.
PrivateKeys(p) ==
  BothForms({session[p].identityKey.privateKey,
             session[p].signedPreKey.privateKey}
            \cup {session[p].preKeys[i].privateKey :
                    i \in 1..Len(session[p].preKeys)}
            \cup {wire[j].ephemeralPrivateKey :
                    j \in {k \in 1..Len(wire) : wire[k].sender = p}})
  \cup (IF Hybrid THEN {HeapGet(session[p].kyberKeyPair.privateKey)} ELSE {})

\* What p hands out: the fields of the Bundle getPublicBundle returns, and
\* the fields of the results of its encryptMessage calls as returned.
HandedOut(p) ==
  LET bundle == GetBundle(p)
      mine == {k \in 1..Len(wire) : wire[k].sender = p}
  IN  BothForms({bundle.identityKey, bundle.signedPreKey.publicKey,
                 bundle.signedPreKey.signature}
                \cup {bundle.preKeys[i] : i \in 1..Len(bundle.preKeys)}
                \cup {wire[j].sentEphemeralKey : j \in mine})
      \cup {wire[j].encryptedMessage : j \in mine}
      \cup (IF Hybrid
            THEN {HeapGet(bundle.kyberPublicKey)}
                   \cup {wire[j].sentCiphertext : j \in mine}
            ELSE {})

\* C6: when the recipient decrypts a message whose ephemeralKey or
\* kyberCiphertext was altered before the call, it derives another session
\* secret than the sender's and does not return the sender's plaintext.
C6_TamperDetected ==
  (/\ last.op = "decryptMessage"
   /\ last.rightful
   /\ last.altered # {}
   /\ last.altered \subseteq {"ephemeralKey", "kyberCiphertext"})
  => (/\ last.sharedSecret # last.sentSharedSecret
      /\ last.text # last.sentText)

\* C8: nothing a party hands out equals one of its private keys.
C8_PrivateKeysConfined ==
  \A p \in Parties : HandedOut(p) \cap PrivateKeys(p) = {}

\* A hybrid party has handed out a bundle and an encrypted message.
C8_Witness ==
  /\ Hybrid
  /\ last.op = "encryptMessage"
  /\ ~last.threw
  /\ bundles # <<>>
  /\ wire[last.msg].sentCiphertext \in HandedOut(last.party)
  /\ fromBase64(wire[last.msg].ephemeralPrivateKey) \in PrivateKeys(last.party)

\* C9: a step that is a call of getPublicBundle, encryptMessage or
\* decryptMessage, or the completion of one, leaves every party's Session
\* as it was.
C9_SessionImmutable ==
  [][edits' = edits => \A p \in Parties : SessionValue(p)' = SessionValue(p)]_vars

\* A decryptMessage call has failed and both sessions are as constructed.
C9_Witness ==
  /\ last.op = "decryptMessage"
  /\ last.threw
  /\ \E seed \in 1..MaxSeed :
       session = InitialSessions(FirstSeed(seed), variant)

\* C10: a holder's change to a returned Bundle changes no Session, not the
\* Bundle getPublicBundle returns from then on, and no other returned
\* Bundle.
C10_BundleSnapshot ==
  [][edits' # edits =>
       /\ \A p \in Parties :
            /\ SessionValue(p)' = SessionValue(p)
            /\ BundleValue(GetBundle(p))' = BundleValue(GetBundle(p))
       /\ Cardinality({b \in 1..Len(bundles) :
                         BundleValue(bundles[b].obj)' #
                           BundleValue(bundles[b].obj)}) <= 1]_vars

\* C4: generateSafetyNumber returns the same for two keys whichever is
\* passed first, also when the two are the same key.
C4_SafetyNumberSymmetric ==
  outputs # <<>> => outputs[1] = outputs[2]

\* The two keys differ, and the one passed first is the greater.
C4_Witness ==
  /\ outputs # <<>>
  /\ StrLess(inputs[2], inputs[1])
  /\ outputs[1] = outputs[2]

C7_CombinerSensitive ==
  outputs # <<>> =>
    /\ inputs[1] # inputs[2] => outputs[2] # outputs[1]
    /\ \A i \in 1..4 : outputs[2 + i] # outputs[1]

\* Four pairwise different secrets were combined.
C7_Witness ==
  /\ Len(outputs) = 6
  /\ Cardinality({inputs[i] : i \in 1..4}) = 4
  /\ outputs[2] # outputs[1]

\* The classes of exception the other failures of a call are thrown as:
\* Error by x25519, the cipher and the KEM, TypeError by the runtime for an
\* operand that is undefined.
RuntimeErrors == {"Error", "TypeError"}

\* C11: decryptMessage with a usedPreKeyIndex outside 0..9 throws, returns
\* no plaintext, and the error is one of its own kind, not of a class that
\* another failure is thrown as.
C11_IndexOutOfRange ==
  (last.op = "decryptMessage" /\ last.index \notin 0..(NumPreKeys - 1)) =>
    /\ last.threw
    /\ last.text = Thrown
    /\ last.error \notin RuntimeErrors

\* C12: encryptMessage given a bundle with an empty pre-key list, or in the
\* hybrid variant without a KEM public key, throws before it has made any
\* deriveSharedSecret call or any encapsulation.
C12_MalformedRejectedFirst ==
  (last.op = "encryptMessage" /\ last.malformed) =>
    /\ last.threw
    /\ last.dhCalls = 0
    /\ last.kemCalls = 0

\* C13: every EncryptedMessage encryptMessage returned names pre-key index
\* 0 and carries as dh3 the agreement of its ephemeral key with preKeys[0]
\* of the bundle the call was given; every party keeps its pre-key 0, whose
\* public half is preKeys[0] of its bundle; and an honest decryptMessage,
\* however many messages were encrypted to that bundle before, selects
\* pre-key 0 and succeeds with the sender's dh3.
C13_PreKeyZeroReused ==
  /\ \A j \in 1..Len(wire) :
       /\ wire[j].sentIndex = 0
       /\ wire[j].secrets[3] =
            deriveSharedSecret(wire[j].ephemeralPrivateKey,
                               wire[j].givenPreKeys[1])
       /\ wire[j].intact =>
            wire[j].givenPreKeys = GetBundle(wire[j].to).preKeys
  /\ (last.op = "encryptMessage" /\ ~last.threw) => last.index = 0
  /\ \A p \in Parties :
       /\ Len(session[p].preKeys) = NumPreKeys
       /\ generateKeyPair(fromBase64(session[p].preKeys[1].privateKey)).publicKey =
            GetBundle(p).preKeys[1]
  /\ HonestDecrypt =>
       /\ ~last.threw
       /\ last.index = 0
       /\ last.secrets[3] = last.sentSecrets[3]
       /\ last.text = last.sentText

\* Two messages were encrypted to the same party's bundle, and that party
\* has since decrypted the first of them.
C13_Witness ==
  /\ Len(wire) = 2
  /\ wire[1].to = wire[2].to
  /\ wire[1].intact /\ wire[2].intact
  /\ HonestDecrypt
  /\ last.msg = 1
  /\ last.text = wire[1].plaintext

\* What p.decryptMessage(bundles[b], ...wire[j]) returns when it runs with
\* no other call in flight: the texts it may return, Thrown for a throw.
DecryptAlone(p, b, j) ==
  LET f == PQXDH_decryptMessage_start(session[p], bundles[b].obj, wire[j].encryptedMessage, wire[j].ephemeralKey, wire[j].usedPreKeyIndex, wire[j].kyberCiphertext)
      ss == MlKem_decap(HeapGet(f.kyberCiphertext), HeapGet(f.kyberPrivateKey))
  IN  IF f.threw THEN {Thrown}
      ELSE {o.text : o \in PQXDH_decryptMessage_resume(session[p], f, ss)}

\* C14: with PQXDH calls interleaving at their awaits, every message an
\* encryptMessage call returned is built from that call's own ephemeral
\* key, its own four DH values and the KEM secret of its own ciphertext,
\* and seals the plaintext that call was given; every decryptMessage call
\* returns what it returns when run alone, the plaintext of its message.
C14_NoInterference ==
  /\ \A j \in 1..Len(wire) :
       LET msg == wire[j]
           recipient == GetBundle(msg.to)
           ephemeralKey == [publicKey |-> msg.sentEphemeralKey,
                            privateKey |-> msg.ephemeralPrivateKey]
       IN  /\ generateKeyPair(fromBase64(msg.ephemeralPrivateKey)) = ephemeralKey
           /\ SubSeq(msg.secrets, 1, 4) =
                InitiatorDH(session[msg.sender], recipient, ephemeralKey)
           /\ fromBase64(msg.secrets[5]) =
                MlKem_decap(msg.sentCiphertext,
                            HeapGet(session[msg.to].kyberKeyPair.privateKey))
           /\ msg.sharedSecret = combineSharedSecrets(msg.secrets)
           /\ decrypt(msg.encryptedMessage, msg.sharedSecret) = {msg.plaintext}
  /\ last.op = "decryptMessage" =>
       /\ last.text \in DecryptAlone(last.party, last.bundle, last.msg)
       /\ last.text = last.sentText
       /\ last.secrets = last.sentSecrets

\* A decryptMessage call that had another call in flight beside it has
\* returned, while an encryptMessage call of the same party is suspended.
C14_Witness ==
  /\ last.op = "decryptMessage"
  /\ last.overlapped
  /\ last.text = last.sentText
  /\ \E c \in 1..Len(calls) :
       /\ calls[c].op = "encryptMessage"
       /\ calls[c].party = last.party
       /\ calls[c].overlapped

\* Two encryptMessage calls of one party were suspended together and
\* resumed in the order opposite to the one they started in.
C14_Reordered ==
  /\ Len(wire) = 2
  /\ wire[1].sender = wire[2].sender
  /\ wire[1].plaintext = messages[2]
  /\ wire[2].plaintext = messages[1]

\* C15: every party's Session holds NumPreKeys pre-keys; every Bundle
\* getPublicBundle returned has the party's identity public key, the public
\* keys of the Session's pre-keys in the Session's order, the public key
\* and signature of its signed pre-key and, in the hybrid variant, the
\* Session's KEM public key, and nothing else; any two Bundles returned for
\* one party are equal.
C15_BundleProjection ==
  /\ \A p \in Parties : Len(session[p].preKeys) = NumPreKeys
  /\ \A b \in 1..Len(bundles) :
       LET sess == session[bundles[b].owner]
           bundle == bundles[b].returned
       IN  /\ bundle.identityKey = sess.identityKey.publicKey
           /\ Len(bundle.preKeys) = NumPreKeys
           /\ \A i \in 1..NumPreKeys :
                bundle.preKeys[i] = sess.preKeys[i].publicKey
           /\ bundle.signedPreKey =
                [publicKey |-> sess.signedPreKey.publicKey,
                 signature |-> sess.signedPreKey.signature]
           /\ Hybrid =>
                /\ bundle.kyberPublicKey = sess.kyberKeyPair.publicKey
                /\ HeapGet(bundle.kyberPublicKey) # Undefined
           /\ DOMAIN bundle =
                {"identityKey", "preKeys", "signedPreKey"} \cup
                  (IF Hybrid THEN {"kyberPublicKey"} ELSE {})
  /\ \A b1, b2 \in 1..Len(bundles) :
       bundles[b1].owner = bundles[b2].owner =>
         BundleValue(bundles[b1].returned) = BundleValue(bundles[b2].returned)

\* getPublicBundle was called twice on one party, with an encryptMessage
\* call in between.
C15_Witness ==
  /\ Len(bundles) = 2
  /\ bundles[1].owner = bundles[2].owner
  /\ last.op = "getPublicBundle"
  /\ last.bundle = 2
  /\ sent > 0
  /\ BundleValue(bundles[1].returned) = BundleValue(bundles[2].returned)

\* The messages of one pair of parties, in either direction.
SamePair(j, k) == {wire[j].sender, wire[j].to} = {wire[k].sender, wire[k].to}

\* C16: any two messages encryptMessage returned have different ephemeral
\* keys, made from different private keys, and different session secrets,
\* whoever sent them, to whichever bundle and whatever the plaintext; the
\* ephemeral key appears in no other message's DH values; and two messages
\* between the same two parties have the same dh1.
C16_FreshEphemeralKey ==
  \A j, k \in 1..Len(wire) :
    j # k =>
      /\ wire[j].sentEphemeralKey # wire[k].sentEphemeralKey
      /\ wire[j].ephemeralPrivateKey # wire[k].ephemeralPrivateKey
      /\ wire[j].sharedSecret # wire[k].sharedSecret
      /\ \A i \in 2..4 : wire[j].secrets[i] # wire[k].secrets[i]
      /\ SamePair(j, k) => wire[j].secrets[1] = wire[k].secrets[1]

\* One party encrypted the same text twice to the same bundle.
C16_Witness ==
  /\ Len(wire) = 2
  /\ wire[1].sender = wire[2].sender
  /\ wire[1].to = wire[2].to
  /\ wire[1].sender # wire[1].to
  /\ wire[1].plaintext = wire[2].plaintext
  /\ wire[1].encryptedMessage # wire[2].encryptedMessage
  /\ wire[1].secrets[1] = wire[2].secrets[1]

\* Nothing but the signature of the signed pre-key was changed.
OnlySignature(altered) == altered \subseteq {"signedPreKey.signature"}

\* Message j as the same call returns it for the bundle its recipient
\* published: the DH values, and the session secret they combine to with
\* the KEM secret of the message.
ForPublished(j) ==
  LET ephemeralKey == [publicKey |-> wire[j].sentEphemeralKey,
                       privateKey |-> wire[j].ephemeralPrivateKey]
      dhs == InitiatorDH(session[wire[j].sender], GetBundle(wire[j].to),
                         ephemeralKey)
      secrets == dhs \o SubSeq(wire[j].secrets, 5, Len(wire[j].secrets))
  IN  [secrets |-> secrets, sharedSecret |-> combineSharedSecrets(secrets)]

\* C17: an encryptMessage call given a bundle in which only the signature
\* of the signed pre-key was changed does not throw and derives, from its
\* ephemeral key, the DH values and session secret it derives for the
\* published bundle; a decryptMessage call of the recipient, when the
\* sender's or the recipient's bundle differed from the published one in
\* the signature only, returns the plaintext as for the published bundles.
C17_SignatureUnchecked ==
  /\ \A j \in 1..Len(wire) :
       OnlySignature(wire[j].bundleAltered) =>
         /\ wire[j].secrets = ForPublished(j).secrets
         /\ wire[j].sharedSecret = ForPublished(j).sharedSecret
  /\ (last.op = "encryptMessage" /\ OnlySignature(last.bundleAltered)) =>
       ~last.threw
  /\ ( /\ last.op = "decryptMessage"
       /\ wire[last.msg].to = last.party
       /\ bundles[last.bundle].owner = wire[last.msg].sender
       /\ OnlySignature(last.bundleAltered)
       /\ OnlySignature(wire[last.msg].bundleAltered)
       /\ last.altered = {} ) =>
       /\ ~last.threw
       /\ last.text = last.sentText
       /\ last.sharedSecret = last.sentSharedSecret

\* A message encrypted to a bundle with a forged signature was decrypted
\* by the bundle's owner.
C17_Witness ==
  /\ last.op = "decryptMessage"
  /\ wire[last.msg].bundleAltered = {"signedPreKey.signature"}
  /\ wire[last.msg].to = last.party
  /\ last.bundleAltered = {}
  /\ last.altered = {}
  /\ last.text = last.sentText

\* A message was decrypted with a sender bundle whose signature is forged.
C17_ForgedSender ==
  /\ last.op = "decryptMessage"
  /\ last.bundleAltered = {"signedPreKey.signature"}
  /\ wire[last.msg].to = last.party
  /\ last.text = last.sentText

\* C18: in every Session the signature of the signed pre-key is
\* sign(identity private key, signed pre-key public key), the base64 text of
\* the hash of the identity private key's bytes followed by the pre-key's
\* public key bytes; it is the signature the Session was constructed with;
\* and every Bundle getPublicBundle returned or returns carries it.
C18_SignedPreKeyBinding ==
  /\ \A p \in Parties :
       LET sess == session[p]
           signature == sess.signedPreKey.signature
       IN  /\ signature = sign(sess.identityKey.privateKey,
                               sess.signedPreKey.publicKey)
           /\ signature =
                toBase64(sha512(fromBase64(sess.identityKey.privateKey) \o
                                fromBase64(sess.signedPreKey.publicKey)))
           /\ \E seed \in 1..MaxSeed :
                signature = InitialSessions(FirstSeed(seed), variant)[p].signedPreKey.signature
           /\ GetBundle(p).signedPreKey.signature = signature
           /\ GetBundle(p).signedPreKey.publicKey = sess.signedPreKey.publicKey
  /\ \A b \in 1..Len(bundles) :
       bundles[b].returned.signedPreKey.signature =
         session[bundles[b].owner].signedPreKey.signature

\* Both parties' bundles were returned, with different signatures, after a
\* message was decrypted.
C18_Witness ==
  /\ Len(bundles) = 2
  /\ bundles[1].owner # bundles[2].owner
  /\ bundles[1].returned.signedPreKey.signature #
       bundles[2].returned.signedPreKey.signature
  /\ last.op = "decryptMessage"
  /\ ~last.threw

\* The calls of the conversation so far that are decryptMessage calls.
Decrypts == {i \in 1..Len(outputs) : outputs[i].op = "decryptMessage"}

\* C19: every decryptMessage call of a conversation, whatever calls were
\* completed before it (decryptMessage calls of the same or of other
\* messages, encryptMessage calls of the same party), returns the plaintext
\* its message was encrypted from; the Sessions are still the ones the
\* parties were constructed with.
C19_StatelessDecrypt ==
  /\ \A i \in Decrypts : outputs[i].text = wire[outputs[i].msg].plaintext
  /\ last.op = "decryptMessage" =>
       /\ ~last.threw
       /\ last.text = last.sentText
       /\ last.sharedSecret = last.sentSharedSecret
  /\ \E seed \in 1..MaxSeed :
       session = InitialSessions(FirstSeed(seed), variant)

\* A party decrypted a message, then encrypted a message of its own, then
\* decrypted the first message again.
C19_Witness ==
  \E i, k, l \in 1..Len(outputs) :
    /\ i < k /\ k < l
    /\ l = Len(outputs)
    /\ outputs[i].op = "decryptMessage"
    /\ outputs[k].op = "encryptMessage"
    /\ outputs[k].party = outputs[i].party
    /\ outputs[l] = outputs[i]
    /\ last.op = "decryptMessage"
    /\ last.text = wire[outputs[l].msg].plaintext

\* A party decrypted the second message it was sent before the first.
C19_OutOfOrder ==
  \E i, k \in Decrypts :
    /\ i < k
    /\ outputs[i].party = outputs[k].party
    /\ outputs[i].msg = 2
    /\ outputs[k].msg = 1
    /\ outputs[k].text = wire[1].plaintext

\* The identity public key of the party that encrypted message j.
SenderIdentityKey(j) == session[wire[j].sender].identityKey.publicKey

\* C20: when decryptMessage is given a senderBundle whose identityKey
\* differs from the identity public key of the party that encrypted the
\* message, its dh1 and its session secret differ from the sender's and it
\* does not return the plaintext.
C20_SenderBinding ==
  (last.op = "decryptMessage" /\ last.identityKey # SenderIdentityKey(last.msg)) =>
    /\ last.secrets[1] # last.sentSecrets[1]
    /\ last.sharedSecret # last.sentSharedSecret
    /\ last.text # last.sentText

\* The bytes of each element of a list of secrets.
Decoded(list) == [i \in 1..Len(list) |-> fromBase64(list[i])]

\* The bytes of the elements of a list, one after the other.
Concatenation(list) == BufferConcat(Decoded(list))

\* Every element of the list is a secret of the length x25519 returns.
FixedLength(list) == \A i \in 1..Len(list) : Len(fromBase64(list[i])) = KeyLen

C21_MovedBoundary ==
  /\ Len(outputs) = 2
  /\ Len(inputs[1]) = 2
  /\ Len(inputs[2]) = 2
  /\ Len(fromBase64(inputs[1][1])) # Len(fromBase64(inputs[2][1]))
  /\ outputs[1] = outputs[2]

\* Two lists of DH secrets that differ in one place were combined to
\* different results.
C21_Distinct ==
  /\ Len(outputs) = 2
  /\ FixedLength(inputs[1])
  /\ FixedLength(inputs[2])
  /\ Len(inputs[1]) = 2
  /\ Len(inputs[2]) = 2
  /\ inputs[1][1] = inputs[2][1]
  /\ fromBase64(inputs[1][2]) # fromBase64(inputs[2][2])
  /\ outputs[1] # outputs[2]

====
